---- MODULE Spec2Model ----
(***************************************************************************)
(* Model of src/src/App.tsx: a React function component holding a task     *)
(* list and an analytics record, both mirrored to localStorage by          *)
(* useEffect callbacks.                                                    *)
(*                                                                         *)
(* React's part is modelled as the component uses it:                      *)
(*  - a setState call queues an update; the component's state (the values  *)
(*    the handlers' closures read) changes when React renders the queue;   *)
(*  - useEffect callbacks run after the render is committed, in the order  *)
(*    they are declared, and only when a dependency was set;               *)
(*  - for a user event (click, key press, change) the handler, the render  *)
(*    and the effects run inside one event dispatch, in that order;        *)
(*  - on page load the first render, the mount effects, the re-render of   *)
(*    the updates the mount effects queued and that re-render's effects    *)
(*    are separate scheduler callbacks: the page may be torn down between  *)
(*    them.  User events are delivered once startup has finished (pc =     *)
(*    "idle"); the component is not wrapped in StrictMode (effects run     *)
(*    once per mount).                                                     *)
(* Strings are sequences of one-character strings; a Date is [ms |-> n],   *)
(* its JSON form the ISO string [iso |-> n]; an absent localStorage key is *)
(* the empty sequence and a present one <<value>>.                         *)
(***************************************************************************)
EXTENDS Integers, Sequences, FiniteSets, TLC

\* ------------------------------------------------------------------ bounds
MaxEvents == 5          \* page loads + add/toggle/delete dispatches per run
MaxTodos == 3           \* longest task list
StartTime == 100000000  \* the clock (ms) when the run starts

\* line 53: const oneDayMs = 24 * 60 * 60 * 1000
oneDayMs == 24 * 60 * 60 * 1000

\* how far the clock moves before each read of Date.now()
LoadDeltas == {1, oneDayMs}    \* before the first render of a page load
EffectDeltas == {0, 1}         \* between the first render and the mount effect
AddDeltas == {0, 1}            \* before addTodo (0: the same millisecond)

\* input texts the user may type
Inputs == { <<" ">>, <<" ", "a", " ">> }

FilterType == {"all", "active", "completed"}

\* an id no task ever has (the clock starts above it)
NoSuchId == 0

Null == <<>>
Some(x) == <<x>>

\* ------------------------------------------------------------- pure helpers
RECURSIVE TrimStart(_)
TrimStart(s) ==
  IF s = <<>> THEN <<>>
  ELSE IF Head(s) = " " THEN TrimStart(Tail(s)) ELSE s

RECURSIVE TrimEnd(_)
TrimEnd(s) ==
  IF s = <<>> THEN <<>>
  ELSE IF s[Len(s)] = " " THEN TrimEnd(SubSeq(s, 1, Len(s) - 1)) ELSE s

\* String.prototype.trim
trim(s) == TrimEnd(TrimStart(s))

\* Date.prototype.toISOString, as JSON.stringify applies it to a Date
toISOString(d) == [iso |-> d.ms]

\* new Date(isoString)
newDate(s) == [ms |-> s.iso]

\* JSON.stringify(todos): every createdAt becomes its ISO string
stringifyTodos(ts) ==
  [i \in DOMAIN ts |-> [ts[i] EXCEPT !.createdAt = toISOString(@)]]

\* JSON.parse(savedTodos).map(todo => ({...todo, createdAt: new Date(todo.createdAt)}))
parsedTodos(js) ==
  [i \in DOMAIN js |-> [js[i] EXCEPT !.createdAt = newDate(@)]]

\* useState<Analytics>({...}) with sessionStart read from the clock
initialAnalytics(t) ==
  [ totalVisitors |-> 0, pageViews |-> 0, sessionStart |-> t, lastVisit |-> 0,
    todosCreated |-> 0, todosCompleted |-> 0, todosDeleted |-> 0,
    sessionsCount |-> 0 ]

\* mutant of returningAnalytics: a gap of exactly one day counts as a new visitor
returningAtLeastADay(parsedAnalytics, t) ==
  LET isNewVisitor == t - parsedAnalytics.lastVisit >= oneDayMs
  IN [ parsedAnalytics EXCEPT
         !.pageViews = parsedAnalytics.pageViews + 1,
         !.totalVisitors = IF isNewVisitor THEN parsedAnalytics.totalVisitors + 1
                           ELSE parsedAnalytics.totalVisitors,
         !.sessionStart = t,
         !.lastVisit = t,
         !.sessionsCount = parsedAnalytics.sessionsCount + 1 ]

\* the record a returning visit queues (lines 56-66)
returningAnalytics(parsedAnalytics, t) ==
  LET isNewVisitor == t - parsedAnalytics.lastVisit > oneDayMs
  IN [ parsedAnalytics EXCEPT
         !.pageViews = parsedAnalytics.pageViews + 1,
         !.totalVisitors = IF isNewVisitor THEN parsedAnalytics.totalVisitors + 1
                           ELSE parsedAnalytics.totalVisitors,
         !.sessionStart = t,
         !.lastVisit = t,
         !.sessionsCount = parsedAnalytics.sessionsCount + 1 ]

\* a queued setAnalytics call: a value ("set") or one of the updater functions
Update(kind, val, t) == [kind |-> kind, val |-> val, now |-> t]

\* what one queued setAnalytics call makes of the previous state
applyUpdate(prev, u) ==
  CASE u.kind = "set" -> u.val
    [] u.kind = "fresh" ->
         [prev EXCEPT !.totalVisitors = 1, !.pageViews = 1,
                      !.lastVisit = u.now, !.sessionsCount = 1]
    [] u.kind = "created" -> [prev EXCEPT !.todosCreated = prev.todosCreated + 1]
    [] u.kind = "completed" -> [prev EXCEPT !.todosCompleted = prev.todosCompleted + 1]
    [] u.kind = "deleted" -> [prev EXCEPT !.todosDeleted = prev.todosDeleted + 1]

\* React processing a state's update queue in order
RECURSIVE reduceQueue(_, _)
reduceQueue(state, q) ==
  IF q = <<>> THEN state
  ELSE reduceQueue(applyUpdate(state, Head(q)), Tail(q))

\* the last queued setTodos value wins (every call passes a value)
lastValue(state, q) == IF q = <<>> THEN state ELSE q[Len(q)]

\* mutant of newTodo: the text is stored as typed
newTodoUntrimmed(text, t) ==
  [id |-> t, text |-> text, completed |-> FALSE, createdAt |-> [ms |-> t]]

\* mutant of newTodo: the id is taken from a clock of two-millisecond ticks
newTodoCoarseId(text, t) ==
  [id |-> t - (t % 2), text |-> trim(text), completed |-> FALSE,
   createdAt |-> [ms |-> t]]

\* lines 99-104: the record addTodo builds
newTodo(text, t) ==
  [id |-> t, text |-> trim(text), completed |-> FALSE, createdAt |-> [ms |-> t]]

\* lines 115-126: todos.map(...) of toggleTodo
toggleMap(ts, id) ==
  [i \in DOMAIN ts |->
     IF ts[i].id = id THEN [ts[i] EXCEPT !.completed = ~ts[i].completed]
     ELSE ts[i]]

\* lines 116-122: one setAnalytics call per matching todo that is not completed
RECURSIVE toggleUpdates(_, _)
toggleUpdates(ts, id) ==
  IF ts = <<>> THEN <<>>
  ELSE (IF Head(ts).id = id /\ ~Head(ts).completed
        THEN <<Update("completed", initialAnalytics(0), 0)>> ELSE <<>>)
       \o toggleUpdates(Tail(ts), id)

\* line 130: todos.filter(todo => todo.id !== id)
RECURSIVE deleteFilter(_, _)
deleteFilter(ts, id) ==
  IF ts = <<>> THEN <<>>
  ELSE (IF Head(ts).id # id THEN <<Head(ts)>> ELSE <<>>)
       \o deleteFilter(Tail(ts), id)

\* mutant of keeps: the "completed" filter is not handled
keepsActiveOnly(f, todo) ==
  IF f = "active" THEN ~todo.completed ELSE TRUE

\* lines 138-140: the predicate of filteredTodos
keeps(f, todo) ==
  IF f = "active" THEN ~todo.completed
  ELSE IF f = "completed" THEN todo.completed
  ELSE TRUE

\* lines 137-141: filteredTodos
RECURSIVE filterTodos(_, _)
filterTodos(ts, f) ==
  IF ts = <<>> THEN <<>>
  ELSE (IF keeps(f, Head(ts)) THEN <<Head(ts)>> ELSE <<>>)
       \o filterTodos(Tail(ts), f)

\* lines 78-81: handleBeforeUnload, on the store
EmptyObject == [empty |-> TRUE]
handleBeforeUnload(ls) ==
  LET currentAnalytics ==
        IF ls.analytics # Null THEN ls.analytics[1] ELSE EmptyObject
  IN [ls EXCEPT !.analytics = Some(currentAnalytics)]

\* lines 88-90: the todos save effect
saveTodos(ls, ts) == [ls EXCEPT !.todos = Some(stringifyTodos(ts))]

\* lines 93-95: the analytics save effect
saveAnalytics(ls, a) == [ls EXCEPT !.analytics = Some(a)]

\* -------------------------------------------------------------------- state
VARIABLES
  localStorage,   \* [todos, analytics]: each Null or Some(JSON value)
  clock,          \* Date.now()
  pc,             \* where the page is: closed, rendered, mounted, hydrated,
                  \* idle, handled, committed
  todos, inputValue, filter, analytics,   \* the component's state
  qTodos, qInput, qAnalytics,             \* queued setState calls
  savedTodos, savedAnalytics, now,        \* what the mount effect read
  changed,        \* the states the last render replaced (the effects' deps)
  ev,             \* the user event being dispatched
  nEvents,        \* page loads and task events so far
  lastAddTime, sameMs   \* the clock value the last add read; whether two
                        \* adds have read the same value

vars == << localStorage, clock, pc, todos, inputValue, filter, analytics,
           qTodos, qInput, qAnalytics, changed, savedTodos, savedAnalytics,
           now, ev, nEvents, lastAddTime, sameMs >>

store == << localStorage >>
component == << todos, inputValue, filter, analytics >>
queues == << qTodos, qInput, qAnalytics >>
mountLocals == << savedTodos, savedAnalytics, now >>
history == << lastAddTime, sameMs >>

NoEvent == [op |-> "none", id |-> 0, now |-> 0]

Init ==
  /\ localStorage = [todos |-> Null, analytics |-> Null]
  /\ clock = StartTime
  /\ pc = "closed"
  /\ todos = <<>>
  /\ inputValue = <<>>
  /\ filter = "all"
  /\ analytics = initialAnalytics(0)
  /\ qTodos = <<>>
  /\ qInput = <<>>
  /\ qAnalytics = <<>>
  /\ changed = {}
  /\ savedTodos = Null
  /\ savedAnalytics = Null
  /\ now = 0
  /\ ev = NoEvent
  /\ nEvents = 0
  /\ lastAddTime = 0
  /\ sameMs = FALSE

\* A page load builds the component: the useState initial values (lines 24-37)
\* and the first render.
PageLoad(d) ==
  /\ pc = "closed"
  /\ nEvents < MaxEvents
  /\ clock' = clock + d
  /\ todos' = <<>>
  /\ inputValue' = <<>>
  /\ filter' = "all"
  /\ analytics' = initialAnalytics(clock')
  /\ pc' = "rendered"
  /\ nEvents' = nEvents + 1
  /\ UNCHANGED << store, queues, changed, mountLocals, ev, history >>

\* lines 41-48 and 51-75: what the mount effect queues
mountTodosQueue(saved) ==
  IF saved # Null THEN << parsedTodos(saved[1]) >> ELSE <<>>

mountAnalyticsQueue(saved, t) ==
  IF saved # Null
  THEN << Update("set", returningAnalytics(saved[1], t), t) >>
  ELSE << Update("fresh", initialAnalytics(0), t) >>

\* (the locals savedTodos, savedAnalytics and now live until the hydrating
\* render's effects have run, the event being dispatched until its effects
\* have run)
\* The effects of the first render, in declaration order: the load effect
\* (lines 40-85) reads the store and queues the hydrated state, then the two
\* save effects (lines 88-95) write the state of the first render.
MountEffects(d) ==
  /\ pc = "rendered"
  /\ clock' = clock + d
  /\ savedTodos' = localStorage.todos
  /\ savedAnalytics' = localStorage.analytics
  /\ now' = clock'
  /\ qTodos' = mountTodosQueue(localStorage.todos)
  /\ qAnalytics' = mountAnalyticsQueue(localStorage.analytics, clock')
  /\ localStorage' = saveAnalytics(saveTodos(localStorage, todos), analytics)
  /\ pc' = "mounted"
  /\ UNCHANGED << component, qInput, changed, ev, nEvents, history >>

\* the states a render replaces: those with a queued update
replaced(qt, qa) ==
  (IF qt # <<>> THEN {"todos"} ELSE {}) \cup
  (IF qa # <<>> THEN {"analytics"} ELSE {})

\* React renders the queued updates: the component's state becomes what the
\* queues make of it.
Render ==
  /\ pc \in {"mounted", "handled"}
  /\ todos' = lastValue(todos, qTodos)
  /\ inputValue' = lastValue(inputValue, qInput)
  /\ analytics' = reduceQueue(analytics, qAnalytics)
  /\ changed' = replaced(qTodos, qAnalytics)
  /\ qTodos' = <<>>
  /\ qInput' = <<>>
  /\ qAnalytics' = <<>>
  /\ pc' = IF pc = "mounted" THEN "hydrated" ELSE "committed"
  /\ UNCHANGED << store, clock, filter, mountLocals, ev, nEvents, history >>

\* mutant of runSaveEffects: the todos save effect is missing
runAnalyticsEffectOnly(ls, deps, ts, a) ==
  IF "analytics" \in deps THEN saveAnalytics(ls, a) ELSE ls

\* lines 88-95: the save effects whose dependency the render replaced
runSaveEffects(ls, deps, ts, a) ==
  LET afterTodos == IF "todos" \in deps THEN saveTodos(ls, ts) ELSE ls
  IN IF "analytics" \in deps THEN saveAnalytics(afterTodos, a) ELSE afterTodos

SaveEffects ==
  /\ pc \in {"hydrated", "committed"}
  /\ localStorage' = runSaveEffects(localStorage, changed, todos, analytics)
  /\ changed' = {}
  /\ pc' = "idle"
  /\ savedTodos' = Null
  /\ savedAnalytics' = Null
  /\ now' = 0
  /\ ev' = NoEvent
  /\ UNCHANGED << clock, component, queues, nEvents, history >>

\* line 265: onChange={(e) => setInputValue(e.target.value)}; the render that
\* follows replaces no dependency of an effect
SetInputValue(s) ==
  /\ pc = "idle"
  /\ inputValue' = s
  /\ UNCHANGED << store, clock, pc, todos, filter, analytics, queues, changed,
                  mountLocals, ev, nEvents, history >>

\* line 283: onClick={() => setFilter(filterType)}
SetFilter(f) ==
  /\ pc = "idle"
  /\ filter' = f
  /\ UNCHANGED << store, clock, pc, todos, inputValue, analytics, queues,
                  changed, mountLocals, ev, nEvents, history >>

\* lines 97-112: addTodo. With a blank input it calls nothing, so nothing is
\* rendered.
AddTodo(d) ==
  /\ pc = "idle"
  /\ nEvents < MaxEvents
  /\ nEvents' = nEvents + 1
  /\ IF trim(inputValue) # <<>>
     THEN /\ Len(todos) < MaxTodos
          /\ clock' = clock + d
          /\ qTodos' = << Append(todos, newTodo(inputValue, clock')) >>
          /\ qInput' = << <<>> >>
          /\ qAnalytics' = << Update("created", initialAnalytics(0), 0) >>
          /\ pc' = "handled"
          /\ ev' = [op |-> "add", id |-> 0, now |-> clock']
          /\ lastAddTime' = clock'
          /\ sameMs' = (sameMs \/ clock' = lastAddTime)
     ELSE UNCHANGED << clock, pc, queues, ev, history >>
  /\ UNCHANGED << store, component, changed, mountLocals >>

\* the ids a toggle or delete may be called with: those of the tasks, and one
\* no task has
Ids(ts) == {ts[i].id : i \in DOMAIN ts} \cup {NoSuchId}

\* lines 114-127: toggleTodo
ToggleTodo(id) ==
  /\ pc = "idle"
  /\ nEvents < MaxEvents
  /\ nEvents' = nEvents + 1
  /\ qTodos' = << toggleMap(todos, id) >>
  /\ qAnalytics' = toggleUpdates(todos, id)
  /\ pc' = "handled"
  /\ ev' = [op |-> "toggle", id |-> id, now |-> 0]
  /\ UNCHANGED << store, clock, component, qInput, changed, mountLocals, history >>

\* lines 129-135: deleteTodo
DeleteTodo(id) ==
  /\ pc = "idle"
  /\ nEvents < MaxEvents
  /\ nEvents' = nEvents + 1
  /\ qTodos' = << deleteFilter(todos, id) >>
  /\ qAnalytics' = << Update("deleted", initialAnalytics(0), 0) >>
  /\ pc' = "handled"
  /\ ev' = [op |-> "delete", id |-> id, now |-> 0]
  /\ UNCHANGED << store, clock, component, qInput, changed, mountLocals, history >>

\* line 83: the beforeunload listener exists once the load effect has run
listening(p) == p \in {"mounted", "hydrated", "idle"}

\* The page is torn down between two callbacks: beforeunload runs the listener
\* if it is registered, and the component and everything queued are dropped.
Unload ==
  /\ pc \in {"rendered", "mounted", "hydrated", "idle"}
  /\ localStorage' = IF listening(pc) THEN handleBeforeUnload(localStorage)
                     ELSE localStorage
  /\ pc' = "closed"
  /\ todos' = <<>>
  /\ inputValue' = <<>>
  /\ filter' = "all"
  /\ analytics' = initialAnalytics(0)
  /\ qTodos' = <<>>
  /\ qInput' = <<>>
  /\ qAnalytics' = <<>>
  /\ changed' = {}
  /\ savedTodos' = Null
  /\ savedAnalytics' = Null
  /\ now' = 0
  /\ ev' = NoEvent
  /\ UNCHANGED << clock, nEvents, history >>

Next ==
  \/ \E d \in LoadDeltas : PageLoad(d)
  \/ \E d \in EffectDeltas : MountEffects(d)
  \/ Render
  \/ SaveEffects
  \/ \E s \in Inputs : SetInputValue(s)
  \/ \E f \in FilterType : SetFilter(f)
  \/ \E d \in AddDeltas : AddTodo(d)
  \/ \E id \in Ids(todos) : ToggleTodo(id)
  \/ \E id \in Ids(todos) : DeleteTodo(id)
  \/ Unload

Spec == Init /\ [][Next]_vars

\* ------------------------------------------------------------------ claims

\* the store holds exactly the component's task list and analytics record
StoreMatchesMemory ==
  /\ localStorage.todos = Some(stringifyTodos(todos))
  /\ localStorage.analytics = Some(analytics)

NoDupIds(ts) == \A i, j \in DOMAIN ts : ts[i].id = ts[j].id => i = j

\* C1: add with a non-blank input appends exactly one task (completed = FALSE,
\* text = the trimmed input) at the end of the collection and adds 1 to
\* todosCreated; add with a blank input changes neither the collection, nor
\* todosCreated, nor the store.
C1_AddAppendsOne ==
  [][ /\ (pc = "handled" /\ ev.op = "add") =>
           /\ trim(inputValue) # <<>>
           /\ Len(todos') = Len(todos) + 1
           /\ SubSeq(todos', 1, Len(todos)) = todos
           /\ todos'[Len(todos')].completed = FALSE
           /\ todos'[Len(todos')].text = trim(inputValue)
           /\ todos'[Len(todos')].text[1] # " "
           /\ todos'[Len(todos')].text[Len(todos'[Len(todos')].text)] # " "
           /\ analytics'.todosCreated = analytics.todosCreated + 1
      /\ (pc = "idle" /\ pc' = "idle" /\ nEvents' = nEvents + 1) =>
           /\ \A k \in DOMAIN inputValue : inputValue[k] = " "
           /\ todos' = todos
           /\ analytics' = analytics
           /\ localStorage' = localStorage
    ]_vars

\* C1 witness: a second task has just been appended by an add
C1_Witness ==
  /\ pc = "committed"
  /\ ev.op = "add"
  /\ Len(todos) = 2
  /\ analytics.todosCreated = 2

\* C2: toggling a task twice returns its completed flag to the original value;
\* todosCompleted grows by exactly 1 on the toggle that takes the task from
\* incomplete to complete and by 0 on any other toggle.
C2_ToggleCountsOnce ==
  [][ (pc = "handled" /\ ev.op = "toggle") =>
        /\ \A i \in DOMAIN todos :
             /\ todos'[i].completed =
                  (IF todos[i].id = ev.id THEN ~todos[i].completed
                   ELSE todos[i].completed)
             /\ toggleMap(todos', ev.id)[i].completed = todos[i].completed
        /\ analytics'.todosCompleted - analytics.todosCompleted =
             (IF \E i \in DOMAIN todos : todos[i].id = ev.id /\ ~todos[i].completed
              THEN 1 ELSE 0)
    ]_vars

\* C3: delete(id) shortens the collection by at most 1 (by 0 when no task has
\* the id), adds exactly 1 to todosDeleted either way, leaves no task with the
\* id and keeps the other tasks in their order.
C3_DeleteAtMostOne ==
  [][ (pc = "handled" /\ ev.op = "delete") =>
        /\ Len(todos) - Len(todos') \in {0, 1}
        /\ (Len(todos') = Len(todos)) <=>
             (\A i \in DOMAIN todos : todos[i].id # ev.id)
        /\ analytics'.todosDeleted = analytics.todosDeleted + 1
        /\ \A i \in DOMAIN todos' : todos'[i].id # ev.id
        /\ todos' = SelectSeq(todos, LAMBDA t : t.id # ev.id)
    ]_vars

\* the positions of the tasks a filter shows
Shown(ts, f) ==
  {i \in DOMAIN ts :
     \/ f = "all"
     \/ f = "active" /\ ts[i].completed = FALSE
     \/ f = "completed" /\ ts[i].completed = TRUE}

\* view lists exactly the tasks at the positions P of ts, in the order of ts
ListsInOrder(view, ts, P) ==
  /\ Len(view) = Cardinality(P)
  /\ \A i \in P : view[Cardinality({j \in P : j <= i})] = ts[i]

ViewsAreRight ==
  /\ \A f \in FilterType : ListsInOrder(filterTodos(todos, f), todos, Shown(todos, f))
  /\ filterTodos(todos, "all") = todos
  /\ Len(filterTodos(todos, "active")) + Len(filterTodos(todos, "completed"))
       = Len(todos)

\* C4: the filtered view is exactly the incomplete tasks under "active", the
\* completed ones under "completed" and all of them under "all", in the
\* collection's order; choosing a filter changes neither the collection, nor
\* the analytics record, nor the store.
C4_FilteredView ==
  [][ /\ ViewsAreRight
      /\ ViewsAreRight'
      /\ (pc = "idle" /\ pc' = "idle" /\ filter' # filter) =>
           /\ todos' = todos
           /\ analytics' = analytics
           /\ localStorage' = localStorage
    ]_vars

\* C4 witness: the first of two tasks is completed and the "active" filter
\* shows the second alone
C4_Witness ==
  /\ pc = "idle"
  /\ filter = "active"
  /\ Len(todos) = 2
  /\ todos[1].completed
  /\ ~todos[2].completed
  /\ filterTodos(todos, filter) = << todos[2] >>

\* what a page load at time t makes of the persisted record P
IsReturningRecord(a, P, t) ==
  /\ a.pageViews = P.pageViews + 1
  /\ a.sessionsCount = P.sessionsCount + 1
  /\ a.sessionStart = t
  /\ a.lastVisit = t
  /\ (t - P.lastVisit > 86400000) => a.totalVisitors = P.totalVisitors + 1
  /\ (t - P.lastVisit <= 86400000) => a.totalVisitors = P.totalVisitors
  /\ a.todosCreated = P.todosCreated
  /\ a.todosCompleted = P.todosCompleted
  /\ a.todosDeleted = P.todosDeleted

\* C5: a page load at time now that finds the persisted record P yields
\* pageViews and sessionsCount one above P's, sessionStart = lastVisit = now,
\* totalVisitors one above P's iff now - P.lastVisit > 86,400,000 ms, and P's
\* task counters; the record is then saved, and the visit counters do not
\* change again before the page is closed.
C5_ReturningVisit ==
  [][ /\ (pc' = "hydrated" /\ savedAnalytics' # Null) =>
           IsReturningRecord(analytics', savedAnalytics'[1], now')
      /\ (pc = "hydrated" /\ savedAnalytics # Null) =>
           (pc' = "closed" \/ localStorage'.analytics = Some(analytics))
      /\ (pc \in {"hydrated", "idle", "handled", "committed"} /\ pc' # "closed") =>
           /\ analytics'.pageViews = analytics.pageViews
           /\ analytics'.sessionsCount = analytics.sessionsCount
           /\ analytics'.totalVisitors = analytics.totalVisitors
    ]_vars

\* C5 witness: a load exactly 24 hours after the last visit, which is not a
\* new visitor
C5_Witness ==
  /\ pc = "hydrated"
  /\ savedAnalytics # Null
  /\ savedAnalytics[1].pageViews >= 1
  /\ now - savedAnalytics[1].lastVisit = 86400000
  /\ analytics.totalVisitors = savedAnalytics[1].totalVisitors
  /\ analytics.pageViews = savedAnalytics[1].pageViews + 1

Counters ==
  {"totalVisitors", "pageViews", "sessionsCount",
   "todosCreated", "todosCompleted", "todosDeleted"}

\* C6: once the store holds an analytics record, no step lowers any of its
\* counters.
C6_StoredCountersNeverDecrease ==
  [][ localStorage.analytics # Null =>
        /\ localStorage'.analytics # Null
        /\ \A c \in Counters :
             localStorage'.analytics[1][c] >= localStorage.analytics[1][c]
    ]_vars

\* C7 as stated: whenever a handler has returned, or the next event can be
\* handled, the store equals the in-memory collection and record.
C7_SavedWhenHandlerReturns ==
  pc \in {"handled", "committed", "idle"} => StoreMatchesMemory

\* C7 as amended: the updates of an add, toggle or delete are rendered and
\* saved within the event's dispatch (no other event and no unload comes in
\* between), so the store equals the in-memory collection and record whenever
\* the next event or the unload notification is handled.
C7_SavedBeforeNextEvent ==
  [][ /\ pc = "idle" => StoreMatchesMemory
      /\ pc' = "idle" => StoreMatchesMemory'
      /\ pc = "handled" => (pc' = "committed" /\ nEvents' = nEvents)
      /\ pc = "committed" => (pc' = "idle" /\ nEvents' = nEvents)
    ]_vars

\* C7 witness: tasks were added, completed and deleted, and the store holds
\* what the component holds
C7_Witness ==
  /\ pc = "idle"
  /\ Len(todos) >= 1
  /\ analytics.todosCompleted >= 1
  /\ analytics.todosDeleted >= 1
  /\ StoreMatchesMemory

\* C8: from the mount effect's read to the end of startup the store key
\* "todos" holds the list L that was persisted, and the hydrated collection
\* equals L field by field.
C8_LoadKeepsStoredTodos ==
  /\ (pc \in {"mounted", "hydrated"} /\ savedTodos # Null) =>
       localStorage.todos = savedTodos
  /\ (pc = "hydrated" /\ savedTodos # Null) =>
       /\ Len(todos) = Len(savedTodos[1])
       /\ \A i \in DOMAIN todos :
            /\ todos[i].id = savedTodos[1][i].id
            /\ todos[i].text = savedTodos[1][i].text
            /\ todos[i].completed = savedTodos[1][i].completed

StoredIdsDistinct ==
  localStorage.todos # Null => NoDupIds(localStorage.todos[1])

\* C9: as long as no two adds have read the same clock value, no two tasks of
\* the collection (or of the stored list) share an id; the render of a
\* toggle, of a delete or of a reload never introduces a duplicate id.
C9_UniqueIds ==
  [][ /\ ~sameMs => (NoDupIds(todos) /\ StoredIdsDistinct)
      /\ ~sameMs' => (NoDupIds(todos') /\ StoredIdsDistinct')
      /\ (pc = "handled" /\ ev.op \in {"toggle", "delete"} /\ NoDupIds(todos)) =>
           NoDupIds(todos')
      /\ (pc = "mounted" /\ savedTodos # Null /\ NoDupIds(savedTodos[1])) =>
           NoDupIds(todos')
    ]_vars

\* C9 witness: three tasks with distinct ids, reloaded from the store
C9_Witness ==
  /\ pc = "hydrated"
  /\ ~sameMs
  /\ Len(todos) = 3
  /\ NoDupIds(todos)

\* C10: after the beforeunload listener has run, the store key "analytics"
\* holds the in-memory analytics record, and the key "todos" is as it was.
C10_UnloadWritesMemory ==
  [][ (listening(pc) /\ pc' = "closed") =>
        /\ localStorage'.analytics = Some(analytics)
        /\ localStorage'.todos = localStorage.todos
    ]_vars

====
